---- MODULE Spec2Model ----
(***************************************************************************)
(* The kairo compilation pipeline: the line parser, the two passes of the  *)
(* semantic analysis, the Rust code generator, and the driver that writes  *)
(* the generated source and runs rustc on it.  Text is a sequence of       *)
(* one-character strings; a source is the sequence of its physical lines.  *)
(***************************************************************************)
EXTENDS Integers, Sequences, FiniteSets, TLC

----------------------------------------------------------------------------
(* Bounds of the model. *)

\* Longest source, in physical lines.
MaxLines == 3
\* Longest expression text handed to parse_expr on its own.
MaxExprLen == 6

----------------------------------------------------------------------------
(* Characters and the std string helpers the parser uses. *)

Letters ==
    {"a", "b", "c", "d", "e", "f", "g", "h", "i", "j", "k", "l", "m",
     "n", "o", "p", "q", "r", "s", "t", "u", "v", "w", "x", "y", "z",
     "A", "B", "C", "D", "E", "F", "G", "H", "I", "J", "K", "L", "M",
     "N", "O", "P", "Q", "R", "S", "T", "U", "V", "W", "X", "Y", "Z"}
Digits == {"0", "1", "2", "3", "4", "5", "6", "7", "8", "9"}
WhiteSpace == {" ", "\t", "\r", "\f"}

is_ascii_alphabetic(c) == c \in Letters
is_ascii_alphanumeric(c) == c \in Letters \cup Digits
is_ascii_whitespace(c) == c \in WhiteSpace

RECURSIVE TrimStart(_)
TrimStart(s) ==
    IF s # <<>> /\ Head(s) \in WhiteSpace THEN TrimStart(Tail(s)) ELSE s

RECURSIVE TrimEnd(_)
TrimEnd(s) ==
    IF s # <<>> /\ s[Len(s)] \in WhiteSpace
    THEN TrimEnd(SubSeq(s, 1, Len(s) - 1))
    ELSE s

Trim(s) == TrimEnd(TrimStart(s))

StartsWith(s, p) == Len(s) >= Len(p) /\ SubSeq(s, 1, Len(p)) = p
EndsWith(s, p) == Len(s) >= Len(p) /\ SubSeq(s, Len(s) - Len(p) + 1, Len(s)) = p

\* Index of the first occurrence of character c in s, 0 when there is none.
RECURSIVE FindChar(_, _, _)
FindChar(s, c, k) ==
    IF k > Len(s) THEN 0
    ELSE IF s[k] = c THEN k
    ELSE FindChar(s, c, k + 1)

\* str::split(c): the pieces between the occurrences of c, empty ones kept.
RECURSIVE Split(_, _)
Split(s, c) ==
    LET k == FindChar(s, c, 1) IN
    IF k = 0 THEN <<s>>
    ELSE <<SubSeq(s, 1, k - 1)>> \o Split(SubSeq(s, k + 1, Len(s)), c)

RECURSIVE MapTrim(_)
MapTrim(ps) ==
    IF ps = <<>> THEN <<>> ELSE <<Trim(Head(ps))>> \o MapTrim(Tail(ps))

----------------------------------------------------------------------------
(* Spans and results. *)

single_line(line, start_col, end_col) ==
    [start |-> [line |-> line, col |-> start_col],
     end |-> [line |-> line, col |-> end_col]]

Ok(v) == [ok |-> TRUE, val |-> v]
Err(e) == [ok |-> FALSE, err |-> e]
None == [tag |-> "None"]
Some(v) == [tag |-> "Some", val |-> v]

----------------------------------------------------------------------------
(* parser/expr.rs *)

DigitVal(c) ==
    CASE c = "0" -> 0 [] c = "1" -> 1 [] c = "2" -> 2 [] c = "3" -> 3
      [] c = "4" -> 4 [] c = "5" -> 5 [] c = "6" -> 6 [] c = "7" -> 7
      [] c = "8" -> 8 [] c = "9" -> 9

RECURSIVE DigitsValue(_, _)
DigitsValue(s, acc) ==
    IF s = <<>> THEN acc ELSE DigitsValue(Tail(s), acc * 10 + DigitVal(Head(s)))

\* str::parse::<i64>: an optional sign, then one or more digits.  Every text
\* of the model is far shorter than the 19 digits that leave the i64 range.
parse_i64(s) ==
    LET signed == s # <<>> /\ Head(s) \in {"+", "-"}
        ds == IF signed THEN Tail(s) ELSE s
        neg == signed /\ Head(s) = "-"
    IN  IF ds = <<>> \/ \E k \in 1..Len(ds) : ds[k] \notin Digits
        THEN Err("ParseIntError")
        ELSE Ok(IF neg THEN 0 - DigitsValue(ds, 0) ELSE DigitsValue(ds, 0))

is_ident(s) ==
    /\ s # <<>>
    /\ is_ascii_alphabetic(s[1]) \/ s[1] = "_"
    /\ \A k \in 2..Len(s) : is_ascii_alphanumeric(s[k]) \/ s[k] = "_"

parse_atom(s, line_no) ==
    IF StartsWith(s, <<"\"">>) /\ EndsWith(s, <<"\"">>) /\ Len(s) >= 2
    THEN Ok([tag |-> "StringLit", s |-> SubSeq(s, 2, Len(s) - 1),
             span |-> single_line(line_no, 1, Len(s))])
    ELSE IF parse_i64(s).ok
    THEN Ok([tag |-> "IntLit", v |-> parse_i64(s).val,
             span |-> single_line(line_no, 1, Len(s))])
    ELSE IF is_ident(s)
    THEN Ok([tag |-> "Ident", name |-> s,
             span |-> single_line(line_no, 1, Len(s))])
    ELSE Err([kind |-> "atom", line |-> line_no, text |-> s])

\* add_span without the arm for two string literals.
add_span_left(expr, rhs, line_no) == expr.span

\* The span parse_expr gives a new BinaryAdd node (expr.rs 34-40).
add_span(expr, rhs, line_no) ==
    IF expr.tag = "StringLit" /\ rhs.tag = "StringLit"
    THEN single_line(line_no, expr.span.start.col, rhs.span.end.col)
    ELSE expr.span

\* fold_parts that nests to the right: a + (b + c).
RECURSIVE fold_parts_right(_, _, _)
fold_parts_right(expr, parts, line_no) ==
    IF parts = <<>> THEN Ok(expr)
    ELSE LET rhs == parse_atom(Head(parts), line_no) IN
         IF ~rhs.ok THEN rhs
         ELSE LET rest == fold_parts_right(rhs.val, Tail(parts), line_no) IN
              IF ~rest.ok THEN rest
              ELSE Ok([tag |-> "BinaryAdd", a |-> expr, b |-> rest.val,
                       span |-> add_span(expr, rest.val, line_no)])

\* The loop of parse_expr over parts[1..]: expr is the tree built so far.
RECURSIVE fold_parts(_, _, _)
fold_parts(expr, parts, line_no) ==
    IF parts = <<>> THEN Ok(expr)
    ELSE LET rhs == parse_atom(Head(parts), line_no) IN
         IF ~rhs.ok THEN rhs
         ELSE fold_parts([tag |-> "BinaryAdd", a |-> expr, b |-> rhs.val,
                          span |-> add_span(expr, rhs.val, line_no)],
                         Tail(parts), line_no)

parse_expr(s, line_no) ==
    LET parts == MapTrim(Split(s, "+")) IN
    IF Len(parts) = 1 THEN parse_atom(parts[1], line_no)
    ELSE LET first == parse_atom(parts[1], line_no) IN
         IF ~first.ok THEN first
         ELSE fold_parts(first.val, Tail(parts), line_no)

----------------------------------------------------------------------------
(* parser/stmt.rs *)

PrintOpen == <<"p", "r", "i", "n", "t", "(">>

parse_print(line, line_no) ==
    IF ~StartsWith(line, PrintOpen) \/ ~EndsWith(line, <<")">>)
    THEN Ok(None)
    ELSE LET inner == Trim(SubSeq(line, 7, Len(line) - 1)) IN
         IF ~(StartsWith(inner, <<"\"">>) /\ EndsWith(inner, <<"\"">>)
              /\ Len(inner) >= 2)
         THEN Err([kind |-> "print", line |-> line_no, text |-> line])
         ELSE Ok([tag |-> "Print",
                  content |-> SubSeq(inner, 2, Len(inner) - 1),
                  span |-> single_line(line_no, 1, Len(line))])

\* while i < bytes.len() && bytes[i].is_ascii_whitespace() { i += 1 }
\* (i is a 0-based byte offset, bytes[i] is bytes[i + 1] here).
RECURSIVE skip_whitespace(_, _)
skip_whitespace(bytes, i) ==
    IF i < Len(bytes) /\ is_ascii_whitespace(bytes[i + 1])
    THEN skip_whitespace(bytes, i + 1)
    ELSE i

\* while j < bytes.len() { if alphanumeric or '_' { j += 1 } else { break } }
RECURSIVE scan_ident(_, _)
scan_ident(bytes, j) ==
    IF j < Len(bytes)
       /\ (is_ascii_alphanumeric(bytes[j + 1]) \/ bytes[j + 1] = "_")
    THEN scan_ident(bytes, j + 1)
    ELSE j

parse_assign(raw, line_no) ==
    LET eq == FindChar(raw, "=", 1) IN
    IF eq = 0 THEN Ok(None)
    ELSE
    LET lhs_raw == SubSeq(raw, 1, eq - 1)
        rhs_raw == SubSeq(raw, eq + 1, Len(raw))
        i0 == skip_whitespace(lhs_raw, 0)
        decl_mut == i0 < Len(lhs_raw) /\ lhs_raw[i0 + 1] = "$"
        name_start == IF decl_mut THEN skip_whitespace(lhs_raw, i0 + 1) ELSE i0
    IN
    IF name_start >= Len(lhs_raw) THEN Ok(None)
    ELSE IF ~(is_ascii_alphabetic(lhs_raw[name_start + 1])
              \/ lhs_raw[name_start + 1] = "_")
    THEN Ok(None)
    ELSE
    LET j == scan_ident(lhs_raw, name_start + 1)
        name == SubSeq(lhs_raw, name_start + 1, j)
        rest == SubSeq(lhs_raw, j + 1, Len(lhs_raw))
    IN
    IF Trim(rest) # <<>>
    THEN Err([kind |-> "lhs", line |-> line_no, text |-> Trim(lhs_raw)])
    ELSE
    LET expr == parse_expr(Trim(rhs_raw), line_no) IN
    IF ~expr.ok THEN expr
    ELSE Ok([tag |-> "Assign", name |-> name, decl_mut |-> decl_mut,
             expr |-> expr.val,
             span |-> single_line(line_no, 1, Len(raw)),
             name_span |-> single_line(line_no, name_start + 1,
                                       name_start + Len(name) + 1)])

----------------------------------------------------------------------------
(* parser/driver.rs: what one iteration of parse's loop does with a line. *)
\*   Ok(None)   the line is blank or a comment: continue
\*   Ok(stmt)   the statement pushed
\*   Err(e)     the error parse returns at once

parse_line(raw_line, line_no) ==
    LET line_trim == Trim(raw_line) IN
    IF line_trim = <<>> \/ StartsWith(line_trim, <<"/", "/">>)
    THEN [ok |-> TRUE, val |-> None]
    ELSE LET pr == parse_print(line_trim, line_no) IN
         IF ~pr.ok THEN pr
         ELSE IF pr.val # None THEN pr
         ELSE LET as == parse_assign(raw_line, line_no) IN
              IF ~as.ok THEN as
              ELSE IF as.val # None THEN as
              ELSE Err([kind |-> "line", line |-> line_no, text |-> raw_line])

----------------------------------------------------------------------------
(* semantics/diagnostics.rs *)

get_line(source, line_no) ==
    IF line_no \in 1..Len(source) THEN source[line_no] ELSE <<>>

saturating_sub(a, b) == IF a >= b THEN a - b ELSE 0

Max(a, b) == IF a >= b THEN a ELSE b

\* The caret string: `spaces` blanks, then `carets` carets.
caret_line(span) ==
    [spaces |-> saturating_sub(span.start.col, 1),
     carets |-> Max(saturating_sub(span.end.col, span.start.col), 1)]

\* What a rendered diagnostic carries besides its fixed wording.
render_error(summary, name, line_no, col, code_line, caret) ==
    [summary |-> summary, name |-> name, line |-> line_no, col |-> col,
     code_line |-> code_line, caret |-> caret]

----------------------------------------------------------------------------
(* semantics/analysis.rs *)

EmptyMap == <<>>

contains_key(m, k) == k \in DOMAIN m

\* HashMap::insert: the value of an existing key is replaced.
insert(m, k, v) == [x \in (DOMAIN m) \cup {k} |-> IF x = k THEN v ELSE m[x]]

friendly_error_assign_immutable(source, name, name_span) ==
    render_error("assign_immutable", name, name_span.start.line,
                 name_span.start.col,
                 get_line(source, name_span.start.line), caret_line(name_span))

friendly_error_redeclare(source, name, name_span) ==
    render_error("redeclare", name, name_span.start.line,
                 name_span.start.col,
                 get_line(source, name_span.start.line), caret_line(name_span))

\* pass1_stmt with a blind upsert for a marked declaration.
pass1_stmt_upsert(vars, errs, stmt, source) ==
    IF stmt.tag = "Print" THEN [vars |-> vars, errors |-> errs]
    ELSE IF stmt.decl_mut
    THEN [vars |-> insert(vars, stmt.name, "Mutable"),
          errors |-> IF contains_key(vars, stmt.name)
                     THEN Append(errs, friendly_error_redeclare(
                                          source, stmt.name, stmt.name_span))
                     ELSE errs]
    ELSE IF ~contains_key(vars, stmt.name)
         THEN [vars |-> insert(vars, stmt.name, "Immutable"), errors |-> errs]
         ELSE IF vars[stmt.name] = "Immutable"
         THEN [vars |-> vars,
               errors |-> Append(errs, friendly_error_assign_immutable(
                                          source, stmt.name, stmt.name_span))]
         ELSE [vars |-> vars, errors |-> errs]

\* pass1_stmt that lets a marked declaration of a Mutable name pass.
pass1_stmt_redeclare_mutable(vars, errs, stmt, source) ==
    IF stmt.tag = "Print" THEN [vars |-> vars, errors |-> errs]
    ELSE IF stmt.decl_mut
    THEN IF ~contains_key(vars, stmt.name)
         THEN [vars |-> insert(vars, stmt.name, "Mutable"), errors |-> errs]
         ELSE IF vars[stmt.name] = "Mutable"
         THEN [vars |-> vars, errors |-> errs]
         ELSE [vars |-> vars,
               errors |-> Append(errs, friendly_error_redeclare(
                                          source, stmt.name, stmt.name_span))]
    ELSE IF ~contains_key(vars, stmt.name)
         THEN [vars |-> insert(vars, stmt.name, "Immutable"), errors |-> errs]
         ELSE IF vars[stmt.name] = "Immutable"
         THEN [vars |-> vars,
               errors |-> Append(errs, friendly_error_assign_immutable(
                                          source, stmt.name, stmt.name_span))]
         ELSE [vars |-> vars, errors |-> errs]

\* pass1_stmt that rejects every assignment to a name with an entry.
pass1_stmt_reject_mutation(vars, errs, stmt, source) ==
    IF stmt.tag = "Print" THEN [vars |-> vars, errors |-> errs]
    ELSE IF stmt.decl_mut
    THEN IF ~contains_key(vars, stmt.name)
         THEN [vars |-> insert(vars, stmt.name, "Mutable"), errors |-> errs]
         ELSE [vars |-> vars,
               errors |-> Append(errs, friendly_error_redeclare(
                                          source, stmt.name, stmt.name_span))]
    ELSE IF ~contains_key(vars, stmt.name)
         THEN [vars |-> insert(vars, stmt.name, "Immutable"), errors |-> errs]
         ELSE [vars |-> vars,
               errors |-> Append(errs, friendly_error_assign_immutable(
                                          source, stmt.name, stmt.name_span))]

\* One iteration of the first loop of check_semantics: the table and the
\* error list after the statement.
pass1_stmt(vars, errs, stmt, source) ==
    IF stmt.tag = "Print" THEN [vars |-> vars, errors |-> errs]
    ELSE IF stmt.decl_mut
    THEN IF ~contains_key(vars, stmt.name)
         THEN [vars |-> insert(vars, stmt.name, "Mutable"), errors |-> errs]
         ELSE [vars |-> vars,
               errors |-> Append(errs, friendly_error_redeclare(
                                          source, stmt.name, stmt.name_span))]
    ELSE IF ~contains_key(vars, stmt.name)
         THEN [vars |-> insert(vars, stmt.name, "Immutable"), errors |-> errs]
         ELSE IF vars[stmt.name] = "Immutable"
         THEN [vars |-> vars,
               errors |-> Append(errs, friendly_error_assign_immutable(
                                          source, stmt.name, stmt.name_span))]
         ELSE [vars |-> vars, errors |-> errs]

\* str::find: the 0-based offset of the first occurrence of pat in s, or -1.
RECURSIVE find_from(_, _, _)
find_from(s, pat, k) ==
    IF k + Len(pat) > Len(s) THEN -1
    ELSE IF SubSeq(s, k + 1, k + Len(pat)) = pat THEN k
    ELSE find_from(s, pat, k + 1)

find(s, pat) == find_from(s, pat, 0)

\* The diagnostic collect_undefined_idents pushes for an undeclared Ident.
undefined_error(name, span, source) ==
    LET line_no == span.start.line
        line_text == get_line(source, line_no)
        idx == find(line_text, name)
        start_col == idx + 1
        end_col == start_col + Len(name)
        col == IF idx >= 0 THEN start_col ELSE span.start.col
        span_for_caret ==
            IF idx >= 0 THEN single_line(line_no, start_col, end_col) ELSE span
    IN  render_error("undefined", name, line_no, col, line_text,
                     caret_line(span_for_caret))

\* collect_undefined_idents that does not descend into the right operand.
RECURSIVE collect_left_only(_, _, _)
collect_left_only(expr, declared, source) ==
    CASE expr.tag = "Ident" ->
            IF ~contains_key(declared, expr.name)
            THEN <<undefined_error(expr.name, expr.span, source)>>
            ELSE <<>>
      [] expr.tag = "BinaryAdd" -> collect_left_only(expr.a, declared, source)
      [] OTHER -> <<>>

\* The errors collect_undefined_idents pushes for expr, in order.
RECURSIVE collect_undefined_idents(_, _, _)
collect_undefined_idents(expr, declared, source) ==
    CASE expr.tag = "Ident" ->
            IF ~contains_key(declared, expr.name)
            THEN <<undefined_error(expr.name, expr.span, source)>>
            ELSE <<>>
      [] expr.tag = "BinaryAdd" ->
            collect_undefined_idents(expr.a, declared, source)
            \o collect_undefined_idents(expr.b, declared, source)
      [] OTHER -> <<>>

\* The update of `declared` that ends an iteration of the second loop.
pass2_declare(declared, stmt) ==
    IF stmt.decl_mut THEN insert(declared, stmt.name, "Mutable")
    ELSE IF ~contains_key(declared, stmt.name)
    THEN insert(declared, stmt.name, "Immutable")
    ELSE declared

\* pass2_stmt that declares the target before it scans the value.
pass2_stmt_declare_first(declared, errs, stmt, source) ==
    IF stmt.tag = "Print" THEN [declared |-> declared, errors |-> errs]
    ELSE [declared |-> pass2_declare(declared, stmt),
          errors |-> errs \o collect_undefined_idents(
                                stmt.expr, pass2_declare(declared, stmt), source)]

\* One iteration of the second loop of check_semantics.
pass2_stmt(declared, errs, stmt, source) ==
    IF stmt.tag = "Print" THEN [declared |-> declared, errors |-> errs]
    ELSE [declared |-> pass2_declare(declared, stmt),
          errors |-> errs \o collect_undefined_idents(stmt.expr, declared,
                                                      source)]

\* semantics_result that returns the first error alone.
semantics_result_first_error(vars, errs) ==
    IF errs # <<>> THEN Err(<<Head(errs)>>) ELSE Ok(vars)

\* The value check_semantics returns once both loops are over.
semantics_result(vars, errs) ==
    IF errs # <<>> THEN Err(errs) ELSE Ok(vars)

----------------------------------------------------------------------------
(* codegen/rust/imp.rs.  The generated text is kept as a sequence of lines, *)
(* each the form the code formats and the pieces it splices in; `arm` is    *)
(* the arm of the match of generate_rust that pushed a binding line.        *)

\* str::replace of `\` by `\\`, then of `"` by `\"`.
RECURSIVE escape(_)
escape(s) ==
    IF s = <<>> THEN <<>>
    ELSE (IF Head(s) = "\\" THEN <<"\\", "\\">>
          ELSE IF Head(s) = "\"" THEN <<"\\", "\"">>
          ELSE <<Head(s)>>) \o escape(Tail(s))

\* gen_expr that emits every variable as its bare name.
RECURSIVE gen_expr_bare(_, _)
gen_expr_bare(expr, vars) ==
    CASE expr.tag = "StringLit" -> <<[t |-> "str", text |-> escape(expr.s)]>>
      [] expr.tag = "IntLit" -> <<[t |-> "int", v |-> expr.v]>>
      [] expr.tag = "Ident" -> <<[t |-> "name", name |-> expr.name]>>
      [] expr.tag = "BinaryAdd" ->
            <<[t |-> "("]>> \o gen_expr_bare(expr.a, vars) \o <<[t |-> " + "]>>
            \o gen_expr_bare(expr.b, vars) \o <<[t |-> ")"]>>

RECURSIVE gen_expr(_, _)
gen_expr(expr, vars) ==
    CASE expr.tag = "StringLit" -> <<[t |-> "str", text |-> escape(expr.s)]>>
      [] expr.tag = "IntLit" -> <<[t |-> "int", v |-> expr.v]>>
      [] expr.tag = "Ident" ->
            IF contains_key(vars, expr.name) /\ vars[expr.name] = "Mutable"
            THEN <<[t |-> "borrow", name |-> expr.name]>>
            ELSE <<[t |-> "name", name |-> expr.name]>>
      [] expr.tag = "BinaryAdd" ->
            <<[t |-> "("]>> \o gen_expr(expr.a, vars) \o <<[t |-> " + "]>>
            \o gen_expr(expr.b, vars) \o <<[t |-> ")"]>>

\* The line generate_rust pushes for an assignment, by the arm of its match.
gen_assign(stmt, vars, declared) ==
    LET mutability == IF contains_key(vars, stmt.name) THEN vars[stmt.name]
                      ELSE "Immutable"
        is_first == stmt.name \notin declared
        expr_code == gen_expr(stmt.expr, vars)
        line(form, arm) == [form |-> form, name |-> stmt.name,
                            code |-> expr_code, arm |-> arm]
    IN  IF is_first /\ mutability = "Mutable" /\ stmt.decl_mut
        THEN line("let = Rc::new(RefCell::new())", 1)
        ELSE IF is_first /\ mutability = "Immutable" /\ ~stmt.decl_mut
        THEN line("let =", 2)
        ELSE IF ~is_first /\ mutability = "Mutable"
        THEN line("*.borrow_mut() =", 3)
        ELSE IF ~is_first /\ mutability = "Immutable"
        THEN line("let = // (note) immutable redeclaration fallback", 4)
        ELSE line("let =", 5)

\* gen_stmts that never records a name as declared.
RECURSIVE gen_stmts_forgetful(_, _, _)
gen_stmts_forgetful(stmts, vars, declared) ==
    IF stmts = <<>> THEN <<>>
    ELSE LET stmt == Head(stmts) IN
         IF stmt.tag = "Print"
         THEN <<[form |-> "println!", text |-> escape(stmt.content)]>>
              \o gen_stmts_forgetful(Tail(stmts), vars, declared)
         ELSE <<gen_assign(stmt, vars, declared)>>
              \o gen_stmts_forgetful(Tail(stmts), vars, declared)

\* The loop of generate_rust: the lines pushed for stmts, `declared` being
\* the names bound so far (only arm 3 and arm 4 leave it as it is).
RECURSIVE gen_stmts(_, _, _)
gen_stmts(stmts, vars, declared) ==
    IF stmts = <<>> THEN <<>>
    ELSE LET stmt == Head(stmts) IN
         IF stmt.tag = "Print"
         THEN <<[form |-> "println!", text |-> escape(stmt.content)]>>
              \o gen_stmts(Tail(stmts), vars, declared)
         ELSE <<gen_assign(stmt, vars, declared)>>
              \o gen_stmts(Tail(stmts), vars, declared \cup {stmt.name})

\* needs_rc that asks for the imports whenever the table has a variable.
needs_rc_any(vars) == DOMAIN vars # {}

needs_rc(vars) == \E n \in DOMAIN vars : vars[n] = "Mutable"

generate_rust(statements, vars) ==
    (IF needs_rc(vars)
     THEN <<[form |-> "use std::rc::Rc;"], [form |-> "use std::cell::RefCell;"]>>
     ELSE <<>>)
    \o <<[form |-> "fn main() {"]>>
    \o gen_stmts(statements, vars, {})
    \o <<[form |-> "}"]>>

----------------------------------------------------------------------------
(* The sources the model compiles. *)

Names == {<<"x">>, <<"y">>}
Marks == {<<>>, <<"$">>}
ExprTexts ==
    {<<"1">>, <<"x">>, <<"y", " ", "+", " ", "x", " ", "+", " ", "x">>}

AssignLines ==
    {m \o n \o <<" ", "=", " ">> \o e : m \in Marks, n \in Names, e \in ExprTexts}

PrintLine == PrintOpen \o <<"\"", "h", "i", "\"", ")">>

\* The lines of the sources compiled under Spec: every assignment of a name
\* of Names to a text of ExprTexts, with and without the marker, a print, a
\* blank line and a line that is no statement.
LineSet == AssignLines \cup {PrintLine, <<>>, <<"x">>}

\* The lines of the sources parsed under SpecParse: skipped lines, statements
\* and one line for every way a line fails.
ParseLines ==
    {<<>>, <<" ", "\t">>, <<"/", "/", "x">>, <<" ", "/", "/">>,
     <<" ">> \o PrintLine \o <<" ">>,
     PrintOpen \o <<"1", ")">>,
     PrintOpen \o <<")">>,
     <<"x">>,
     <<"x", " ", "y", "=", "1">>,
     <<"x", "=", "1", "+">>,
     <<"$", "=", "1">>,
     <<" ", "$", " ", "x", "=", "y">>,
     <<"x", "=", "\"", "a", "\"", "+", "1">>}

\* The characters of the expression texts parsed under SpecExpr.
ExprChars == {"a", "b", "1", "+", " ", "\""}

RECURSIVE SeqsUpTo(_, _)
SeqsUpTo(S, n) ==
    IF n = 0 THEN {<<>>}
    ELSE LET shorter == SeqsUpTo(S, n - 1) IN
         shorter \cup {Append(q, e) : q \in {r \in shorter : Len(r) = n - 1},
                                      e \in S}

----------------------------------------------------------------------------
(* The pipeline of compile_file_to_exe, from the source read to the code    *)
(* generated: parse, check_semantics, generate_rust.                        *)

VARIABLES
    source,       \* the physical lines of the source read
    pc,           \* parse | pass1 | pass2 | generate | done
    line_idx,     \* lines parse has taken from source.lines()
    statements,   \* the statements pushed so far, then the Program's
    parsed,       \* what parse returned
    info,         \* SemanticInfo.vars
    errors,       \* the error list of check_semantics
    i,            \* statements the running loop of check_semantics has done
    declared,     \* the second loop's map of the names declared so far
    semantic,     \* what check_semantics returned
    rust_code,    \* what generate_rust returned
    fs,           \* the file system: the directories and the files
    inv,          \* the locals of each running compile_file_to_exe
    target_windows  \* cfg!(target_os = "windows") of the build

vars == <<source, pc, line_idx, statements, parsed, info, errors, i, declared,
          semantic, rust_code, fs, inv, target_windows>>

\* What the stages of one compilation leave alone: the disk and the locals of
\* the invocations of compile_file_to_exe.
driver_vars == <<fs, inv, target_windows>>

EmptyFs == [dirs |-> {}, files |-> <<>>]

\* No invocation of compile_file_to_exe is under way.
NoDriver ==
    /\ fs = EmptyFs
    /\ inv = <<>>
    /\ target_windows = FALSE

Pending == [tag |-> "Pending"]

Init ==
    /\ source \in SeqsUpTo(LineSet, MaxLines)
    /\ pc = "parse"
    /\ line_idx = 0
    /\ statements = <<>>
    /\ parsed = Pending
    /\ info = EmptyMap
    /\ errors = <<>>
    /\ i = 0
    /\ declared = EmptyMap
    /\ semantic = Pending
    /\ rust_code = Pending
    /\ NoDriver

\* ParseLine that notes the error of a line and goes on with the next.
ParseLine_recover ==
    /\ pc = "parse"
    /\ line_idx < Len(source)
    /\ LET r == parse_line(source[line_idx + 1], line_idx + 1) IN
       /\ line_idx' = line_idx + 1
       /\ IF ~r.ok
          THEN /\ parsed' = r
               /\ UNCHANGED <<statements, pc>>
          ELSE /\ statements' = IF r.val = None THEN statements
                                ELSE Append(statements, r.val)
               /\ UNCHANGED <<parsed, pc>>
    /\ UNCHANGED <<source, info, errors, i, declared, semantic, rust_code>>
    /\ UNCHANGED driver_vars

\* parse: one iteration of the loop over source.lines().
ParseLine ==
    /\ pc = "parse"
    /\ line_idx < Len(source)
    /\ LET r == parse_line(source[line_idx + 1], line_idx + 1) IN
       /\ line_idx' = line_idx + 1
       /\ IF ~r.ok
          THEN /\ parsed' = r
               /\ pc' = "done"
               /\ UNCHANGED statements
          ELSE /\ statements' = IF r.val = None THEN statements
                                ELSE Append(statements, r.val)
               /\ UNCHANGED <<parsed, pc>>
    /\ UNCHANGED <<source, info, errors, i, declared, semantic, rust_code>>
    /\ UNCHANGED driver_vars

\* parse: the lines are exhausted, Ok(Program { statements }); check_semantics
\* starts with an empty table and an empty error list.
ParseReturn ==
    /\ pc = "parse"
    /\ line_idx = Len(source)
    /\ parsed' = Ok(statements)
    /\ pc' = "pass1"
    /\ info' = EmptyMap
    /\ errors' = <<>>
    /\ i' = 0
    /\ UNCHANGED <<source, line_idx, statements, declared, semantic, rust_code>>
    /\ UNCHANGED driver_vars

\* check_semantics: one iteration of the first loop.
Pass1Stmt ==
    /\ pc = "pass1"
    /\ i < Len(statements)
    /\ LET r == pass1_stmt(info, errors, statements[i + 1], source) IN
       /\ info' = r.vars
       /\ errors' = r.errors
    /\ i' = i + 1
    /\ UNCHANGED <<source, pc, line_idx, statements, parsed, declared, semantic,
                   rust_code>>
    /\ UNCHANGED driver_vars

\* check_semantics: the first loop is over, the second starts.
Pass2Start ==
    /\ pc = "pass1"
    /\ i = Len(statements)
    /\ pc' = "pass2"
    /\ declared' = EmptyMap
    /\ i' = 0
    /\ UNCHANGED <<source, line_idx, statements, parsed, info, errors, semantic,
                   rust_code>>
    /\ UNCHANGED driver_vars

\* check_semantics: one iteration of the second loop.
Pass2Stmt ==
    /\ pc = "pass2"
    /\ i < Len(statements)
    /\ LET r == pass2_stmt(declared, errors, statements[i + 1], source) IN
       /\ declared' = r.declared
       /\ errors' = r.errors
    /\ i' = i + 1
    /\ UNCHANGED <<source, pc, line_idx, statements, parsed, info, semantic,
                   rust_code>>
    /\ UNCHANGED driver_vars

\* check_semantics returns: the errors joined, or the table.
SemanticsReturn ==
    /\ pc = "pass2"
    /\ i = Len(statements)
    /\ semantic' = semantics_result(info, errors)
    /\ pc' = IF semantics_result(info, errors).ok THEN "generate" ELSE "done"
    /\ UNCHANGED <<source, line_idx, statements, parsed, info, errors, i,
                   declared, rust_code>>
    /\ UNCHANGED driver_vars

\* generate_rust on the Program and the table.
Generate ==
    /\ pc = "generate"
    /\ rust_code' = Ok(generate_rust(statements, semantic.val))
    /\ pc' = "done"
    /\ UNCHANGED <<source, line_idx, statements, parsed, info, errors, i,
                   declared, semantic>>
    /\ UNCHANGED driver_vars

Next ==
    \/ ParseLine
    \/ ParseReturn
    \/ Pass1Stmt
    \/ Pass2Start
    \/ Pass2Stmt
    \/ SemanticsReturn
    \/ Generate

Spec == Init /\ [][Next]_vars

\* parse alone, on sources over ParseLines; the pipeline goes on as in Spec.
InitParse ==
    /\ source \in SeqsUpTo(ParseLines, MaxLines)
    /\ pc = "parse"
    /\ line_idx = 0
    /\ statements = <<>>
    /\ parsed = Pending
    /\ info = EmptyMap
    /\ errors = <<>>
    /\ i = 0
    /\ declared = EmptyMap
    /\ semantic = Pending
    /\ rust_code = Pending
    /\ NoDriver

SpecParse == InitParse /\ [][Next]_vars

\* parse_expr on its own: source holds the one expression text, parsed the
\* Result returned.
InitExpr ==
    /\ source \in {<<t>> : t \in SeqsUpTo(ExprChars, MaxExprLen)}
    /\ pc = "expr"
    /\ line_idx = 0
    /\ statements = <<>>
    /\ parsed = Pending
    /\ info = EmptyMap
    /\ errors = <<>>
    /\ i = 0
    /\ declared = EmptyMap
    /\ semantic = Pending
    /\ rust_code = Pending
    /\ NoDriver

ParseExpr ==
    /\ pc = "expr"
    /\ parsed' = parse_expr(source[1], 1)
    /\ pc' = "done"
    /\ UNCHANGED <<source, line_idx, statements, info, errors, i, declared,
                   semantic, rust_code>>
    /\ UNCHANGED driver_vars

SpecExpr == InitExpr /\ [][ParseExpr]_vars

----------------------------------------------------------------------------
(* compiler/mod.rs: compile_file_to_exe as a whole.  Two invocations run     *)
(* side by side on one disk; a path is a directory and a file name, a file   *)
(* name a text.                                                              *)

\* parser::parse: the loop over the lines from line k on, stmts pushed so far.
RECURSIVE parse_from(_, _, _)
parse_from(src, k, stmts) ==
    IF k > Len(src) THEN Ok(stmts)
    ELSE LET r == parse_line(src[k], k) IN
         IF ~r.ok THEN r
         ELSE parse_from(src, k + 1,
                         IF r.val = None THEN stmts ELSE Append(stmts, r.val))

parse(src) == parse_from(src, 1, <<>>)

\* The first loop of check_semantics from statement k on.
RECURSIVE pass1_from(_, _, _, _, _)
pass1_from(stmts, k, table, errs, src) ==
    IF k > Len(stmts) THEN [vars |-> table, errors |-> errs]
    ELSE LET r == pass1_stmt(table, errs, stmts[k], src) IN
         pass1_from(stmts, k + 1, r.vars, r.errors, src)

\* The second loop of check_semantics from statement k on.
RECURSIVE pass2_from(_, _, _, _, _)
pass2_from(stmts, k, decl, errs, src) ==
    IF k > Len(stmts) THEN [declared |-> decl, errors |-> errs]
    ELSE LET r == pass2_stmt(decl, errs, stmts[k], src) IN
         pass2_from(stmts, k + 1, r.declared, r.errors, src)

check_semantics(program, src) ==
    LET p1 == pass1_from(program, 1, EmptyMap, <<>>, src)
        p2 == pass2_from(program, 1, EmptyMap, p1.errors, src)
    IN  semantics_result(p1.vars, p2.errors)

\* The index of the last occurrence of c in s, 0 when there is none.
RECURSIVE rfind_char(_, _, _)
rfind_char(s, c, k) ==
    IF k = 0 THEN 0
    ELSE IF s[k] = c THEN k
    ELSE rfind_char(s, c, k - 1)

\* Path::file_stem: the file name without its last extension; a name with no
\* dot, or with its only dot in front, is its own stem.
file_stem(path) ==
    LET name == path.name
        dot == rfind_char(name, ".", Len(name))
    IN  IF name = <<>> THEN None
        ELSE IF dot <= 1 THEN Some(name)
        ELSE Some(SubSeq(name, 1, dot - 1))

\* stem_of that keeps the directory of the source in front of the stem.
stem_of_per_source(src_path) ==
    LET stem == file_stem(src_path) IN
    <<src_path.dir>> \o (IF stem = None THEN <<"o", "u", "t">> ELSE stem.val)

\* file_stem().and_then(|s| s.to_str()).unwrap_or("out")
stem_of(src_path) ==
    LET stem == file_stem(src_path) IN
    IF stem = None THEN <<"o", "u", "t">> ELSE stem.val

out_dir == "target/kairo_out"

join(dir, name) == [dir |-> dir, name |-> name]

rs_path(src_path) == join(out_dir, stem_of(src_path) \o <<".", "r", "s">>)

exe_name(src_path, windows) ==
    IF windows THEN stem_of(src_path) \o <<".", "e", "x", "e">>
    ELSE stem_of(src_path)

exe_path(src_path, windows) == join(out_dir, exe_name(src_path, windows))

\* fs::write: the file is created, or its content replaced.
fs_write(disk, path, content) ==
    [disk EXCEPT !.files = insert(disk.files, path, content)]

\* The sources on disk when the invocations start.
SourceOk1 == <<<<"x", " ", "=", " ", "1">>>>
SourceOk2 ==
    <<<<"$", "y", " ", "=", " ", "2">>,
      <<"y", " ", "=", " ", "y", " ", "+", " ", "1">>>>
SourceBadSyntax == <<<<"x", " ", "=", " ", "1">>, <<"x">>>>
SourceBadSemantics == <<<<"x", " ", "=", " ", "y">>>>
CompileSources == {SourceOk1, SourceOk2, SourceBadSyntax, SourceBadSemantics}

Invocations == {1, 2}

MainKr == <<"m", ".", "k", "r">>
OtherKr == <<"n", ".", "k", "r">>

\* The stages of compile_file_to_exe, in the order of its statements.
Stages ==
    <<"read", "parse", "analyze", "generate", "create_dir", "write", "rustc">>

\* The locals of an invocation that has not run yet; log is the stages it
\* has run, compiled the generated source rustc read for it.
Started(src_path, release) ==
    [pc |-> "read", src_path |-> src_path, release |-> release,
     source |-> <<>>, program |-> <<>>, semantic |-> Pending,
     rust_code |-> Pending, status |-> "not run", compiled |-> Pending,
     result |-> Pending, log |-> <<>>]

InitCompile ==
    /\ source = <<>>
    /\ pc = "driver"
    /\ line_idx = 0
    /\ statements = <<>>
    /\ parsed = Pending
    /\ info = EmptyMap
    /\ errors = <<>>
    /\ i = 0
    /\ declared = EmptyMap
    /\ semantic = Pending
    /\ rust_code = Pending
    /\ target_windows \in BOOLEAN
    /\ \E second \in {join("b", MainKr), join("b", OtherKr)},
          present \in (SUBSET {1, 2}) \ {{}},
          release \in BOOLEAN :
          /\ inv = [p \in Invocations |->
                      Started(IF p = 1 THEN join("a", MainKr) ELSE second,
                              IF p = 1 THEN release ELSE FALSE)]
          /\ \E c1, c2 \in CompileSources :
                fs = [dirs |-> {"a", "b"},
                      files |-> [f \in {inv[p].src_path : p \in present} |->
                                    IF f = inv[1].src_path THEN c1 ELSE c2]]

\* What a step of compile_file_to_exe leaves alone.
driver_frame ==
    UNCHANGED <<source, pc, line_idx, statements, parsed, info, errors, i,
                declared, semantic, rust_code, target_windows>>

\* An invocation returns: `?` or bail! with an error, or Ok(exe_path).
Return(p, stage, r) ==
    [inv EXCEPT ![p].pc = "done", ![p].result = r,
                ![p].log = Append(@, stage)]

Step(p, stage, next) ==
    [inv EXCEPT ![p].pc = next, ![p].log = Append(@, stage)]

\* fs::read_to_string(src_path)?
ReadSource(p) ==
    /\ driver_frame
    /\ inv[p].pc = "read"
    /\ inv' = IF inv[p].src_path \in DOMAIN fs.files
              THEN [Step(p, "read", "parse") EXCEPT
                        ![p].source = fs.files[inv[p].src_path]]
              ELSE Return(p, "read", Err("failed to read source"))
    /\ UNCHANGED fs

\* parser::parse(&source, src_path)?
Parse(p) ==
    /\ driver_frame
    /\ inv[p].pc = "parse"
    /\ LET r == parse(inv[p].source) IN
       inv' = IF r.ok
              THEN [Step(p, "parse", "analyze") EXCEPT ![p].program = r.val]
              ELSE Return(p, "parse", r)
    /\ UNCHANGED fs

\* check_semantics(&program, src_path, &source)?
Analyze(p) ==
    /\ driver_frame
    /\ inv[p].pc = "analyze"
    /\ LET r == check_semantics(inv[p].program, inv[p].source) IN
       inv' = IF r.ok
              THEN [Step(p, "analyze", "generate") EXCEPT ![p].semantic = r.val]
              ELSE Return(p, "analyze", r)
    /\ UNCHANGED fs

\* codegen::rust::generate_rust(&program, &semantic)?, which is always Ok.
GenerateRust(p) ==
    /\ driver_frame
    /\ inv[p].pc = "generate"
    /\ inv' = [Step(p, "generate", "create_dir") EXCEPT
                  ![p].rust_code =
                      generate_rust(inv[p].program, inv[p].semantic)]
    /\ UNCHANGED fs

\* fs::create_dir_all(&out_dir)?: the disk may refuse.
CreateDir(p) ==
    /\ driver_frame
    /\ inv[p].pc = "create_dir"
    /\ \E created \in BOOLEAN :
          IF created
          THEN /\ fs' = [fs EXCEPT !.dirs = @ \cup {out_dir}]
               /\ inv' = Step(p, "create_dir", "write")
          ELSE /\ inv' = Return(p, "create_dir", Err("create dir"))
               /\ UNCHANGED fs

\* fs::write(&rs_path, rust_code)?: the disk may refuse.
WriteRs(p) ==
    /\ driver_frame
    /\ inv[p].pc = "write"
    /\ \E written \in BOOLEAN :
          IF written
          THEN /\ fs' = fs_write(fs, rs_path(inv[p].src_path), inv[p].rust_code)
               /\ inv' = Step(p, "write", "rustc")
          ELSE /\ inv' = Return(p, "write", Err("write file"))
               /\ UNCHANGED fs

\* The arguments handed to rustc.
rustc_args(src_path, release, windows) ==
    (IF release THEN <<"-O">> ELSE <<>>)
    \o <<"--edition=2024", "-o", exe_path(src_path, windows), rs_path(src_path)>>

\* Command::new("rustc")...status()?: rustc may not start; when it runs it
\* reads the file named by its last argument as that file is then, and on
\* success leaves the executable at the path after -o.
RunRustc(p) ==
    /\ driver_frame
    /\ inv[p].pc = "rustc"
    /\ LET args == rustc_args(inv[p].src_path, inv[p].release, target_windows)
           input == args[Len(args)]
           output == args[Len(args) - 1]
       IN  \E outcome \in {"not started", "success", "failure"} :
              CASE outcome = "not started" ->
                      /\ inv' = Return(p, "rustc", Err("failed to run rustc"))
                      /\ UNCHANGED fs
                [] outcome = "success" ->
                      /\ inv' = [Step(p, "rustc", "status") EXCEPT
                                    ![p].status = "success",
                                    ![p].compiled = fs.files[input]]
                      /\ fs' = fs_write(fs, output,
                                        [built_from |-> fs.files[input],
                                         optimized |-> args[1] = "-O"])
                [] outcome = "failure" ->
                      /\ inv' = [Step(p, "rustc", "status") EXCEPT
                                    ![p].status = "failure",
                                    ![p].compiled = fs.files[input]]
                      /\ UNCHANGED fs

\* CheckStatus that returns the executable's path whatever rustc's status.
CheckStatus_unchecked(p) ==
    /\ driver_frame
    /\ inv[p].pc = "status"
    /\ inv' = [inv EXCEPT
                  ![p].pc = "done",
                  ![p].result = Ok(exe_path(inv[p].src_path, target_windows))]
    /\ UNCHANGED fs

\* if !status.success() { bail!(...) } Ok(exe_path)
CheckStatus(p) ==
    /\ driver_frame
    /\ inv[p].pc = "status"
    /\ inv' = [inv EXCEPT
                  ![p].pc = "done",
                  ![p].result =
                      IF inv[p].status = "success"
                      THEN Ok(exe_path(inv[p].src_path, target_windows))
                      ELSE Err("rustc failed to compile generated code")]
    /\ UNCHANGED fs

NextCompile ==
    \E p \in Invocations :
        \/ ReadSource(p)
        \/ Parse(p)
        \/ Analyze(p)
        \/ GenerateRust(p)
        \/ CreateDir(p)
        \/ WriteRs(p)
        \/ RunRustc(p)
        \/ CheckStatus(p)

SpecCompile == InitCompile /\ [][NextCompile]_vars

----------------------------------------------------------------------------
(* What the claims speak of, stated on the program and not on the analysis. *)

IsAssign(st) == st.tag = "Assign"

\* Some statement before the k-th assigns name n.
AssignedBefore(stmts, k, n) ==
    \E j \in 1..(k - 1) : IsAssign(stmts[j]) /\ stmts[j].name = n

\* The statement that assigns n first.
FirstAssign(stmts, n) ==
    CHOOSE j \in 1..Len(stmts) :
        IsAssign(stmts[j]) /\ stmts[j].name = n /\ ~AssignedBefore(stmts, j, n)

FirstMutability(stmts, n) ==
    IF stmts[FirstAssign(stmts, n)].decl_mut THEN "Mutable" ELSE "Immutable"

\* The names of the Ident nodes of an expression, left to right.
RECURSIVE IdentNames(_)
IdentNames(expr) ==
    CASE expr.tag = "Ident" -> <<expr.name>>
      [] expr.tag = "BinaryAdd" -> IdentNames(expr.a) \o IdentNames(expr.b)
      [] OTHER -> <<>>

Skipped(l) == Trim(l) = <<>> \/ StartsWith(Trim(l), <<"/", "/">>)

\* The line numbers of the lines of src that are not skipped, in order.
RECURSIVE StmtLinesFrom(_, _)
StmtLinesFrom(src, k) ==
    IF k > Len(src) THEN <<>>
    ELSE (IF Skipped(src[k]) THEN <<>> ELSE <<k>>) \o StmtLinesFrom(src, k + 1)

StmtLines(src) == StmtLinesFrom(src, 1)

\* The identifier occurrences of statement k that no earlier statement
\* assigns, each with the line of statement k.
UndefinedIn(stmts, k, src) ==
    IF ~IsAssign(stmts[k]) THEN <<>>
    ELSE LET names == IdentNames(stmts[k].expr)
             undef == SelectSeq(names, LAMBDA n : ~AssignedBefore(stmts, k, n))
             line == StmtLines(src)[k]
         IN  IF undef = <<>> THEN <<>>
             ELSE [j \in 1..Len(undef) |-> [name |-> undef[j], line |-> line]]

\* The same for the statements 1..upto, in order.
RECURSIVE ExpectedUndefined(_, _, _)
ExpectedUndefined(stmts, upto, src) ==
    IF upto = 0 THEN <<>>
    ELSE ExpectedUndefined(stmts, upto - 1, src) \o UndefinedIn(stmts, upto, src)

\* The undefined-variable errors of an error list: the name and line of each.
ReportedUndefined(errs) ==
    LET u == SelectSeq(errs, LAMBDA e : e.summary = "undefined") IN
    [j \in 1..Len(u) |-> [name |-> u[j].name, line |-> u[j].line]]

\* The assignments that break a rule of the first pass: a name assigned
\* before is declared again with the marker, or is assigned again while its
\* first assignment had no marker.
Pass1Violations(stmts) ==
    {k \in 1..Len(stmts) :
        /\ IsAssign(stmts[k])
        /\ AssignedBefore(stmts, k, stmts[k].name)
        /\ (stmts[k].decl_mut
            \/ FirstMutability(stmts, stmts[k].name) = "Immutable")}

Returned(r) == r # Pending

----------------------------------------------------------------------------
(* C1: in the first pass, an entry of the symbol table never changes once   *)
(* it is there, whatever the later assignments to its name are, and it is   *)
(* Mutable exactly when the first assignment to the name had the marker.    *)

C1_MutabilityFixed ==
    [][/\ \A n \in DOMAIN info : n \in DOMAIN info' /\ info'[n] = info[n]
       /\ pc' = "pass1" =>
            \A n \in DOMAIN info' :
                /\ AssignedBefore(statements', i' + 1, n)
                /\ info'[n] = FirstMutability(statements', n)]_vars

\* The first pass has gone through the first assignment to a name and a
\* later one to the same name whose marker differs, and the entry is still
\* what the first one set.
C1_Witness ==
    /\ pc = "pass1"
    /\ \E j, k \in 1..i :
          /\ j < k /\ IsAssign(statements[j]) /\ IsAssign(statements[k])
          /\ statements[j].name = statements[k].name
          /\ statements[j].decl_mut # statements[k].decl_mut
          /\ ~AssignedBefore(statements, j, statements[j].name)
          /\ info[statements[j].name]
               = (IF statements[j].decl_mut THEN "Mutable" ELSE "Immutable")

----------------------------------------------------------------------------
(* C2: every identifier occurrence in the value of a statement whose name   *)
(* no earlier statement assigns (the statement's own target included) is    *)
(* reported as an undefined variable with that name and the statement's     *)
(* line, and makes check_semantics fail; an identifier an earlier statement *)
(* assigns is never reported.                                               *)

C2_UndefinedReported ==
    /\ pc = "pass2" =>
          ReportedUndefined(errors) = ExpectedUndefined(statements, i, source)
    /\ Returned(semantic) =>
          LET expected == ExpectedUndefined(statements, Len(statements), source)
          IN  /\ ReportedUndefined(errors) = expected
              /\ expected # <<>> =>
                    ~semantic.ok /\ ReportedUndefined(semantic.err) = expected

\* check_semantics failed on a program whose first statement refers to its
\* own target, on a line that is not line 1, and that also uses a name an
\* earlier statement assigns.
C2_Witness ==
    /\ Returned(semantic) /\ ~semantic.ok
    /\ Len(statements) >= 2
    /\ IsAssign(statements[1])
    /\ \E j \in 1..Len(IdentNames(statements[1].expr)) :
          IdentNames(statements[1].expr)[j] = statements[1].name
    /\ StmtLines(source)[1] # 1
    /\ IsAssign(statements[2])
    /\ \E j \in 1..Len(IdentNames(statements[2].expr)) :
          AssignedBefore(statements, 2, IdentNames(statements[2].expr)[j])

----------------------------------------------------------------------------

\* Statement k is a marked assignment to a name an earlier statement assigns.
IsRedeclaration(stmts, k) ==
    IsAssign(stmts[k]) /\ stmts[k].decl_mut
    /\ AssignedBefore(stmts, k, stmts[k].name)

C3_Failed ==
    Returned(semantic) =>
        \A k \in 1..Len(statements) :
            IsRedeclaration(statements, k) =>
                /\ ~semantic.ok
                /\ \E j \in 1..Len(semantic.err) :
                      /\ semantic.err[j].summary = "redeclare"
                      /\ semantic.err[j].name = statements[k].name
                      /\ semantic.err[j].line = StmtLines(source)[k]

(* C3: an assignment with the marker to a name that has an entry (entered   *)
(* with or without the marker) pushes a duplicate-declaration error for the *)
(* name, leaves the table as it is and makes check_semantics fail; one to a *)
(* name with no entry inserts Mutable and pushes no error.                  *)
C3_DuplicateDeclaration ==
    [][/\ (pc = "pass1" /\ i < Len(statements)
           /\ IsAssign(statements[i + 1]) /\ statements[i + 1].decl_mut) =>
             LET name == statements[i + 1].name IN
             IF name \in DOMAIN info
             THEN /\ info' = info
                  /\ Len(errors') = Len(errors) + 1
                  /\ SubSeq(errors', 1, Len(errors)) = errors
                  /\ errors'[Len(errors')].summary = "redeclare"
                  /\ errors'[Len(errors')].name = name
             ELSE /\ DOMAIN info' = DOMAIN info \cup {name}
                  /\ info'[name] = "Mutable"
                  /\ \A n \in DOMAIN info : info'[n] = info[n]
                  /\ errors' = errors
       /\ C3_Failed']_vars

\* check_semantics failed on a program that declares with the marker a name
\* first assigned without it, and declares another name with the marker for
\* the first time, entered as Mutable.
C3_Witness ==
    /\ Returned(semantic) /\ ~semantic.ok
    /\ \E j, k \in 1..Len(statements) :
          /\ IsRedeclaration(statements, k)
          /\ j = FirstAssign(statements, statements[k].name)
          /\ ~statements[j].decl_mut
          /\ info[statements[k].name] = "Immutable"
    /\ \E k \in 1..Len(statements) :
          /\ IsAssign(statements[k]) /\ statements[k].decl_mut
          /\ ~AssignedBefore(statements, k, statements[k].name)
          /\ info[statements[k].name] = "Mutable"

----------------------------------------------------------------------------
(* C4: an assignment without the marker to a name that has an entry pushes  *)
(* an assignment-to-immutable error exactly when the entry is Immutable;    *)
(* when it is Mutable no error is pushed; the table is unchanged in both.   *)

C4_AssignExisting ==
    [][(pc = "pass1" /\ i < Len(statements)
        /\ IsAssign(statements[i + 1]) /\ ~statements[i + 1].decl_mut
        /\ statements[i + 1].name \in DOMAIN info) =>
          LET name == statements[i + 1].name IN
          /\ info' = info
          /\ IF info[name] = "Immutable"
             THEN /\ Len(errors') = Len(errors) + 1
                  /\ SubSeq(errors', 1, Len(errors)) = errors
                  /\ errors'[Len(errors')].summary = "assign_immutable"
                  /\ errors'[Len(errors')].name = name
                  /\ errors'[Len(errors')].line = StmtLines(source)[i + 1]
             ELSE errors' = errors]_vars

\* The first pass has gone through two unmarked assignments to a name whose
\* entry is Mutable: no error, and the entry is as the declaration set it.
C4_Witness ==
    /\ pc = "pass1"
    /\ i = 3
    /\ IsAssign(statements[1]) /\ statements[1].decl_mut
    /\ \A k \in 2..3 :
          /\ IsAssign(statements[k]) /\ ~statements[k].decl_mut
          /\ statements[k].name = statements[1].name
    /\ info[statements[1].name] = "Mutable"
    /\ errors = <<>>

----------------------------------------------------------------------------

\* The lines of the first-pass errors of an error list.
Pass1ErrorLines(errs) ==
    LET e1 == SelectSeq(errs, LAMBDA e : e.summary # "undefined") IN
    [j \in 1..Len(e1) |-> e1[j].line]

\* The members of a set of numbers, in increasing order.
RECURSIVE Sorted(_)
Sorted(S) ==
    IF S = {} THEN <<>>
    ELSE LET m == CHOOSE x \in S : \A y \in S : x <= y IN
         <<m>> \o Sorted(S \ {m})

(* C5: check_semantics returns the table exactly when no statement breaks a *)
(* rule; otherwise it returns the errors, one for every assignment that     *)
(* breaks a rule of the first pass and one for every undefined identifier   *)
(* occurrence of the second, none dropped and no statement left unanalysed. *)
C5_TableOrAllErrors ==
    Returned(semantic) =>
        LET viol == Pass1Violations(statements)
            undef == ExpectedUndefined(statements, Len(statements), source)
            lines == StmtLines(source)
        IN  /\ semantic.ok <=> (viol = {} /\ undef = <<>>)
            /\ semantic.ok => semantic.val = info
            /\ ~semantic.ok =>
                  /\ semantic.err # <<>>
                  /\ Len(semantic.err) = Cardinality(viol) + Len(undef)
                  /\ Pass1ErrorLines(semantic.err)
                       = (LET sorted == Sorted(viol) IN
                          IF viol = {} THEN <<>>
                          ELSE [j \in 1..Len(sorted) |-> lines[sorted[j]]])
                  /\ ReportedUndefined(semantic.err) = undef
                  /\ rust_code = Pending
    /\ NoDriver

\* check_semantics returned three errors or more, of both passes, the first
\* of them not from the last statement.
C5_Witness ==
    /\ Returned(semantic) /\ ~semantic.ok
    /\ Len(semantic.err) >= 3
    /\ Pass1Violations(statements) # {}
    /\ ExpectedUndefined(statements, Len(statements), source) # <<>>
    /\ semantic.err[1].line # StmtLines(source)[Len(statements)]

\* check_semantics returned the table of a program of two assignments.
C5_WitnessOk ==
    /\ Returned(semantic) /\ semantic.ok
    /\ Cardinality(DOMAIN semantic.val) = 2

----------------------------------------------------------------------------
(* C6: when check_semantics succeeds, every Ident of every statement's      *)
(* value names a variable that has an entry in the table returned.          *)

C6_IdentsInTable ==
    (Returned(semantic) /\ semantic.ok) =>
        \A k \in 1..Len(statements) :
            IsAssign(statements[k]) =>
                \A j \in 1..Len(IdentNames(statements[k].expr)) :
                    IdentNames(statements[k].expr)[j] \in DOMAIN semantic.val

\* check_semantics succeeded on a program with a sum that refers to two names.
C6_Witness ==
    /\ Returned(semantic) /\ semantic.ok
    /\ \E k \in 1..Len(statements) :
          /\ IsAssign(statements[k])
          /\ Len(IdentNames(statements[k].expr)) = 3
          /\ \E j \in 1..3 : IdentNames(statements[k].expr)[j] # statements[k].name

----------------------------------------------------------------------------

\* Line l, the k-th, is not skipped and is no statement.
LineFails(l, k) ==
    /\ ~Skipped(l)
    /\ LET p == parse_print(Trim(l), k) IN
       \/ ~p.ok
       \/ /\ p.val = None
          /\ LET a == parse_assign(l, k) IN ~a.ok \/ a.val = None

\* The number of the first line that fails, 0 when none does.
FirstFailing(src) ==
    IF \E k \in 1..Len(src) : LineFails(src[k], k)
    THEN CHOOSE k \in 1..Len(src) :
            /\ LineFails(src[k], k)
            /\ \A j \in 1..(k - 1) : ~LineFails(src[j], j)
    ELSE 0

\* The statement that line l, the k-th, is.
StatementOf(l, k) ==
    IF parse_print(Trim(l), k).val # None THEN parse_print(Trim(l), k).val
    ELSE parse_assign(l, k).val

\* The statements of the lines 1..upto that are not skipped, in order.
StatementsUpTo(src, upto) ==
    LET ls == SelectSeq(StmtLines(src), LAMBDA k : k <= upto) IN
    [j \in 1..Len(ls) |-> StatementOf(src[ls[j]], ls[j])]

(* C7: parse takes the lines in order and stops at the first line that is   *)
(* neither skipped nor a print or assignment statement: it returns the      *)
(* syntax error of that line and no Program, and takes no later line; when  *)
(* no line fails the Program holds one statement for every line that is not *)
(* skipped, in the order of the source.                                     *)
C7_FirstErrorAborts ==
    LET f == FirstFailing(source) IN
    /\ pc = "parse" =>
          /\ parsed = Pending
          /\ f # 0 => line_idx < f
          /\ statements = StatementsUpTo(source, line_idx)
    /\ (Returned(parsed) /\ ~parsed.ok) =>
          /\ f # 0 /\ line_idx = f
          /\ parsed.err.line = f
          /\ pc = "done" /\ semantic = Pending /\ rust_code = Pending
    /\ (Returned(parsed) /\ parsed.ok) =>
          /\ f = 0 /\ line_idx = Len(source)
          /\ Len(parsed.val) = Len(StmtLines(source))
          /\ parsed.val = StatementsUpTo(source, Len(source))

\* parse returned the error of line 2 of a source whose line 1 is a
\* statement and whose line 3 would be one.
C7_Witness ==
    /\ Returned(parsed) /\ ~parsed.ok
    /\ Len(source) = 3 /\ line_idx = 2
    /\ Len(statements) = 1
    /\ ~Skipped(source[3]) /\ ~LineFails(source[3], 3)

\* parse returned a Program of two statements for a source of three lines.
C7_WitnessOk ==
    /\ Returned(parsed) /\ parsed.ok
    /\ Len(source) = 3 /\ Len(parsed.val) = 2

----------------------------------------------------------------------------

RECURSIVE CountChar(_, _)
CountChar(s, c) ==
    IF s = <<>> THEN 0
    ELSE (IF Head(s) = c THEN 1 ELSE 0) + CountChar(Tail(s), c)

\* No BinaryAdd of e has a BinaryAdd as its right child.
RECURSIVE IsLeftChain(_)
IsLeftChain(e) ==
    e.tag = "BinaryAdd" => (e.b.tag # "BinaryAdd" /\ IsLeftChain(e.a))

\* The atoms of e, left to right.
RECURSIVE Leaves(_)
Leaves(e) ==
    IF e.tag = "BinaryAdd" THEN Leaves(e.a) \o Leaves(e.b) ELSE <<e>>

(* C8: parse_expr is left-associative: a text of n >= 2 atoms separated by  *)
(* `+` gives BinaryAdd(...BinaryAdd(BinaryAdd(a1, a2), a3)..., an); the     *)
(* right child of every BinaryAdd is an atom.                               *)
C8_LeftAssociative ==
    /\ (pc = "done" /\ parsed.ok) =>
        LET n == CountChar(source[1], "+") + 1
            parts == MapTrim(Split(source[1], "+"))
        IN  /\ IsLeftChain(parsed.val)
            /\ Len(Leaves(parsed.val)) = n
            /\ \A j \in 1..n : Leaves(parsed.val)[j] = parse_atom(parts[j], 1).val
            /\ n >= 2 => parsed.val.tag = "BinaryAdd"
    /\ pc = "done" =>
          LET parts == MapTrim(Split(source[1], "+")) IN
          (\A j \in 1..Len(parts) : parse_atom(parts[j], 1).ok) => parsed.ok

\* parse_expr returned the tree of a text of three atoms.
C8_Witness ==
    /\ pc = "done" /\ parsed.ok
    /\ CountChar(source[1], "+") = 2
    /\ parsed.val.tag = "BinaryAdd"
    /\ parsed.val.a.tag = "BinaryAdd"

----------------------------------------------------------------------------

\* The line generate_rust emitted for statement k.
BodyLine(code, k) ==
    code[(IF code[1].form = "use std::rc::Rc;" THEN 3 ELSE 1) + k]

(* C9: for a program that passed check_semantics, generate_rust emits for a *)
(* Mutable name a cell binding at its first assignment and a mutation       *)
(* through the cell at every later one, and for an Immutable name exactly   *)
(* one plain let; the two fallback outputs are never emitted.               *)
C9_BindingPerMutability ==
    (Returned(rust_code) /\ rust_code.ok) =>
        \A k \in 1..Len(statements) :
            IsAssign(statements[k]) =>
                LET name == statements[k].name
                    line == BodyLine(rust_code.val, k)
                IN  /\ line.name = name
                    /\ line.arm \notin {4, 5}
                    /\ IF semantic.val[name] = "Mutable"
                       THEN line.form =
                              (IF AssignedBefore(statements, k, name)
                               THEN "*.borrow_mut() ="
                               ELSE "let = Rc::new(RefCell::new())")
                       ELSE /\ line.form = "let ="
                            /\ \A j \in 1..Len(statements) :
                                  (IsAssign(statements[j])
                                   /\ statements[j].name = name) => j = k

\* Code was generated for a program that declares a Mutable name, assigns it
\* again and assigns an Immutable name.
C9_Witness ==
    /\ Returned(rust_code) /\ rust_code.ok
    /\ \E j, k, l \in 1..Len(statements) :
          /\ j < k
          /\ IsAssign(statements[j]) /\ IsAssign(statements[k])
          /\ IsAssign(statements[l])
          /\ statements[j].name = statements[k].name
          /\ semantic.val[statements[j].name] = "Mutable"
          /\ semantic.val[statements[l].name] = "Immutable"

----------------------------------------------------------------------------

CellForms ==
    {"use std::rc::Rc;", "use std::cell::RefCell;",
     "let = Rc::new(RefCell::new())", "*.borrow_mut() ="}

NoMarkNoReassign(stmts) ==
    \A k \in 1..Len(stmts) :
        IsAssign(stmts[k]) =>
            ~stmts[k].decl_mut /\ ~AssignedBefore(stmts, k, stmts[k].name)

(* C10: for a program with no marked assignment that assigns each name at   *)
(* most once, the generated code has no cell binding, no cell import, no    *)
(* cell read and no cell mutation.                                          *)
C10_NoCellWithoutMarker ==
    (Returned(rust_code) /\ rust_code.ok /\ NoMarkNoReassign(statements)) =>
        \A k \in 1..Len(rust_code.val) :
            LET line == rust_code.val[k] IN
            /\ line.form \notin CellForms
            /\ "code" \in DOMAIN line =>
                  \A j \in 1..Len(line.code) : line.code[j].t # "borrow"

\* Code was generated for a program of unmarked assignments, one of which
\* reads a variable.
C10_Witness ==
    /\ Returned(rust_code) /\ rust_code.ok
    /\ NoMarkNoReassign(statements)
    /\ \E k \in 1..Len(statements) :
          IsAssign(statements[k]) /\ IdentNames(statements[k].expr) # <<>>

----------------------------------------------------------------------------

Range(s) == {s[k] : k \in 1..Len(s)}

IsPrefix(s, q) == Len(s) <= Len(q) /\ s = SubSeq(q, 1, Len(s))

\* Some line of src is neither skipped nor a statement.
ParseFails(src) == FirstFailing(src) # 0

\* src parses, and its program breaks a rule of the first or the second pass.
AnalysisFails(src) ==
    /\ ~ParseFails(src)
    /\ LET stmts == StatementsUpTo(src, Len(src)) IN
       \/ Pass1Violations(stmts) # {}
       \/ ExpectedUndefined(stmts, Len(stmts), src) # <<>>

\* The stage at which the compilation of the file at path stops for want of
\* clean data, 0 when reading, parsing and analysis all succeed.
EarlyFailure(disk, path) ==
    IF path \notin DOMAIN disk.files THEN 1
    ELSE IF ParseFails(disk.files[path]) THEN 2
    ELSE IF AnalysisFails(disk.files[path]) THEN 3
    ELSE 0

GeneratedFiles(disk) == {f \in DOMAIN disk.files : f.dir = out_dir}

(* C11: compile_file_to_exe runs its stages in the order read, parse,       *)
(* analyze, generate, write, rustc, and stops at the stage that fails: when *)
(* reading, parsing or analysis fails the invocation writes no generated    *)
(* source and does not run rustc; rustc is run only after the generated     *)
(* source was written; the executable's path is returned only when rustc    *)
(* exited with success.                                                     *)
C11_StagesInOrder ==
    /\ \A p \in Invocations :
          LET v == inv[p]
              early == EarlyFailure(fs, v.src_path)
          IN  /\ IsPrefix(v.log, Stages)
              /\ early # 0 =>
                    /\ Len(v.log) <= early
                    /\ v.pc = "done" =>
                          /\ v.log = SubSeq(Stages, 1, early)
                          /\ ~v.result.ok
              /\ "rustc" \in Range(v.log) =>
                    /\ "write" \in Range(v.log)
                    /\ rs_path(v.src_path) \in DOMAIN fs.files
              /\ (Returned(v.result) /\ v.result.ok) =>
                    /\ v.status = "success"
                    /\ v.log = Stages
                    /\ v.result.val = exe_path(v.src_path, target_windows)
                    /\ v.result.val \in DOMAIN fs.files
              /\ (Returned(v.result) /\ ~v.result.ok) =>
                    v.status # "success"
    /\ \A f \in GeneratedFiles(fs) :
          \E p \in Invocations :
              /\ EarlyFailure(fs, inv[p].src_path) = 0
              /\ "write" \in Range(inv[p].log)
              /\ f \in {rs_path(inv[p].src_path),
                        exe_path(inv[p].src_path, target_windows)}
              /\ f = exe_path(inv[p].src_path, target_windows) =>
                    "rustc" \in Range(inv[p].log)

\* One invocation returned the path of its executable while the other, whose
\* source breaks a semantic rule, stopped after the analysis.
C11_Witness ==
    \E p, q \in Invocations :
        /\ Returned(inv[p].result) /\ inv[p].result.ok
        /\ inv[q].pc = "done" /\ ~inv[q].result.ok
        /\ inv[q].log = <<"read", "parse", "analyze">>

----------------------------------------------------------------------------

\* The BinaryAdd nodes of e.
RECURSIVE AddNodes(_)
AddNodes(e) ==
    IF e.tag = "BinaryAdd" THEN {e} \cup AddNodes(e.a) \cup AddNodes(e.b)
    ELSE {}

BothStringLits(node) == node.a.tag = "StringLit" /\ node.b.tag = "StringLit"

\* C12 as stated: the span of every BinaryAdd node parse_expr produces is the
\* span of its left operand, whatever the kinds of the two operands.
C12_SpanOfLeftOperand ==
    (pc = "done" /\ parsed.ok) =>
        \A node \in AddNodes(parsed.val) : node.span = node.a.span

(* C12, amended: the span of a BinaryAdd node parse_expr produces is the    *)
(* span of its left operand unless both operands are string literals; then  *)
(* it starts where the left literal starts and ends at the end column of    *)
(* the right literal, the length of that literal with its quotes.           *)
C12_SpanLeftUnlessTwoStrings ==
    (pc = "done" /\ parsed.ok) =>
        \A node \in AddNodes(parsed.val) :
            IF BothStringLits(node)
            THEN /\ node.span.start = node.a.span.start
                 /\ node.span.end.line = node.a.span.end.line
                 /\ node.span.end.col = Len(node.b.s) + 2
            ELSE node.span = node.a.span

\* parse_expr returned the sum of two string literals of different lengths,
\* whose span is not that of the left one.
C12_Witness ==
    /\ pc = "done" /\ parsed.ok
    /\ parsed.val.tag = "BinaryAdd"
    /\ BothStringLits(parsed.val)
    /\ Len(parsed.val.a.s) # Len(parsed.val.b.s)
    /\ parsed.val.span # parsed.val.a.span

----------------------------------------------------------------------------

\* The operands of the text s, which follows `base` characters of its line:
\* each operand's text and the column at which it starts.
RECURSIVE OperandsFrom(_, _)
OperandsFrom(s, base) ==
    LET k == FindChar(s, "+", 1)
        piece == IF k = 0 THEN s ELSE SubSeq(s, 1, k - 1)
        lead == Len(piece) - Len(TrimStart(piece))
        here == <<[text |-> Trim(piece), col |-> base + lead + 1]>>
    IN  IF k = 0 THEN here
        ELSE here \o OperandsFrom(SubSeq(s, k + 1, Len(s)), base + k)

\* The operands of the value of the assignment on line raw.
Operands(raw) ==
    LET eq == FindChar(raw, "=", 1) IN
    OperandsFrom(SubSeq(raw, eq + 1, Len(raw)), eq)

\* The identifier occurrences of statement k that no earlier statement
\* assigns, each with its line and the column at which it starts.
UndefinedOccurrences(stmts, k, src) ==
    IF ~IsAssign(stmts[k]) THEN <<>>
    ELSE LET line == StmtLines(src)[k]
             undef == SelectSeq(Operands(src[line]),
                                LAMBDA o : /\ is_ident(o.text)
                                           /\ ~AssignedBefore(stmts, k, o.text))
         IN  IF undef = <<>> THEN <<>>
             ELSE [j \in 1..Len(undef) |->
                      [name |-> undef[j].text, line |-> line,
                       col |-> undef[j].col]]

RECURSIVE ExpectedOccurrences(_, _, _)
ExpectedOccurrences(stmts, upto, src) ==
    IF upto = 0 THEN <<>>
    ELSE ExpectedOccurrences(stmts, upto - 1, src)
         \o UndefinedOccurrences(stmts, upto, src)

\* C13 as stated: every undefined-variable error reports the column at which
\* the offending identifier occurrence itself starts in its line, and a caret
\* range that covers exactly that occurrence.
C13_OccurrenceColumn ==
    pc \in {"pass2", "generate", "done"} =>
        LET reported == SelectSeq(errors, LAMBDA e : e.summary = "undefined")
            expected == ExpectedOccurrences(statements, i, source)
        IN  /\ Len(reported) = Len(expected)
            /\ \A j \in 1..Len(reported) :
                  /\ reported[j].name = expected[j].name
                  /\ reported[j].line = expected[j].line
                  /\ reported[j].col = expected[j].col
                  /\ reported[j].caret =
                        [spaces |-> expected[j].col - 1,
                         carets |-> Len(expected[j].name)]

----------------------------------------------------------------------------

\* C14 as stated: in the second pass the map of the names declared so far
\* keeps for every name the mutability of its first assignment, whatever the
\* later assignments to the name, and so agrees after every statement with
\* the table of the first pass on every name it contains.
C14_DeclaredAgreesWithTable ==
    pc = "pass2" =>
        \A n \in DOMAIN declared :
            /\ declared[n] = FirstMutability(statements, n)
            /\ n \in DOMAIN info /\ declared[n] = info[n]

----------------------------------------------------------------------------

\* The two invocations compile different source files of the same stem.
SameStem(p, q) ==
    /\ inv[p].src_path # inv[q].src_path
    /\ file_stem(inv[p].src_path) = file_stem(inv[q].src_path)

\* rustc was started for invocation p and read the generated source.
RanRustc(p) == inv[p].status # "not run"

Generated(p) == "generate" \in Range(inv[p].log)

(* C15: two invocations of compile_file_to_exe on different source files of *)
(* the same stem use the same generated-source path and the same executable *)
(* path, and nothing holds one back while the other is between its write    *)
(* and its rustc: whenever one is about to write, its write can happen.     *)
(* What rustc compiles for an invocation is the generated source of         *)
(* whichever of the two wrote last; with different stems it is always the   *)
(* invocation's own.                                                        *)
C15_SharedPathsNoLock ==
    \A p, q \in Invocations :
        p # q =>
            /\ SameStem(p, q) =>
                  /\ rs_path(inv[p].src_path) = rs_path(inv[q].src_path)
                  /\ exe_path(inv[p].src_path, target_windows)
                       = exe_path(inv[q].src_path, target_windows)
                  /\ (inv[p].pc = "rustc" /\ inv[q].pc = "write") =>
                        ENABLED WriteRs(q)
                  /\ RanRustc(p) =>
                        \/ inv[p].compiled = inv[p].rust_code
                        \/ Generated(q) /\ inv[p].compiled = inv[q].rust_code
            /\ ~SameStem(p, q) =>
                  /\ rs_path(inv[p].src_path) # rs_path(inv[q].src_path)
                  /\ RanRustc(p) => inv[p].compiled = inv[p].rust_code

\* An invocation wrote its generated source, the other invocation, of the
\* same stem and another program, overwrote it before rustc ran, and the
\* first returned the path of an executable built from the other's code.
C15_Witness ==
    \E p, q \in Invocations :
        /\ SameStem(p, q)
        /\ Returned(inv[p].result) /\ inv[p].result.ok
        /\ inv[p].log = Stages
        /\ Generated(q)
        /\ inv[p].rust_code # inv[q].rust_code
        /\ inv[p].compiled = inv[q].rust_code
        /\ fs.files[inv[p].result.val].built_from = inv[q].rust_code

----------------------------------------------------------------------------

CellBinding == "let = Rc::new(RefCell::new())"

BindingForms ==
    {CellBinding, "let =", "let = // (note) immutable redeclaration fallback"}

ImportForms == {"use std::rc::Rc;", "use std::cell::RefCell;"}

\* The lines of code before line k that bind variable n.
BindingsBefore(code, k, n) ==
    {j \in 1..(k - 1) :
        /\ code[j].form \in BindingForms
        /\ code[j].name = n}

\* The variable references of a line: its cell reads and its bare names.
References(line) ==
    IF "code" \in DOMAIN line
    THEN SelectSeq(line.code, LAMBDA tok : tok.t \in {"borrow", "name"})
    ELSE <<>>

(* C16: the code generated for a program that passed check_semantics is     *)
(* binding-consistent: every variable reference of a line has the binding   *)
(* of its variable on an earlier line, it is a read through the cell        *)
(* exactly when that binding is a cell binding, and the two cell imports    *)
(* are emitted exactly when some line is a cell binding.                    *)
C16_BindingConsistent ==
    (Returned(rust_code) /\ rust_code.ok) =>
        LET code == rust_code.val IN
        /\ \A k \in 1..Len(code) :
              \A r \in 1..Len(References(code[k])) :
                  LET ref == References(code[k])[r]
                      bound == BindingsBefore(code, k, ref.name)
                  IN  /\ bound # {}
                      /\ \A j \in bound :
                            ref.t = "borrow" <=> code[j].form = CellBinding
        /\ LET cells == \E k \in 1..Len(code) : code[k].form = CellBinding IN
           /\ cells <=> (\E k \in 1..Len(code) : code[k].form \in ImportForms)
           /\ cells => /\ code[1].form = "use std::rc::Rc;"
                       /\ code[2].form = "use std::cell::RefCell;"
           /\ \A k \in 3..Len(code) : code[k].form \notin ImportForms

\* Code was generated for a program one line of which reads a variable bound
\* to a cell and a variable bound plainly.
C16_Witness ==
    /\ Returned(rust_code) /\ rust_code.ok
    /\ \E k \in 1..Len(rust_code.val) :
          LET refs == References(rust_code.val[k]) IN
          /\ \E r \in 1..Len(refs) : refs[r].t = "borrow"
          /\ \E r \in 1..Len(refs) : refs[r].t = "name"

====
